---- MODULE Spec2Model ----
(***************************************************************************)
(* Twitch provider utilities of vidstack-player:                           *)
(*   resolveTwitchSource  (two regular expressions over a source string)   *)
(*   findTwitchPoster     (probe loop, posterCache, pendingFetch)          *)
(*   TwitchProviderLoader.loadPoster                                       *)
(* Strings are sequences of one-character strings.  Template literals are  *)
(* sequences too: a fixed chunk of the template is one element, an         *)
(* interpolated string contributes its characters.                         *)
(***************************************************************************)
EXTENDS Integers, Sequences, FiniteSets, TLC

VARIABLES
    rsrc,          \* the string handed to resolveTwitchSource
    resolved,      \* what resolveTwitchSource returned for rsrc (NotYet before the call)
    posterCache,   \* Map<string, string>
    pendingFetch,  \* Map<string, Promise<string>>: key -> index into probes
    probes,        \* the promises created by findTwitchPoster, in creation order
    calls,         \* the loadPoster / findTwitchPoster calls made so far, in order
    aborted        \* the AbortControllers whose abort() was called; call i passes controller i

vars == <<rsrc, resolved, posterCache, pendingFetch, probes, calls, aborted>>

(***************************************************************************)
(* Bounds                                                                  *)
(***************************************************************************)
MaxParts == 3          \* chunks after the URL shape in an input of resolveTwitchSource
MaxCalls == 2          \* calls of loadPoster / findTwitchPoster in one run

(***************************************************************************)
(* Characters and literals                                                 *)
(***************************************************************************)
Digit == {"0", "1", "2", "3", "4", "5", "6", "7", "8", "9"}

Lower == {"a", "b", "c", "d", "e", "f", "g", "h", "i", "j", "k", "l", "m",
          "n", "o", "p", "q", "r", "s", "t", "u", "v", "w", "x", "y", "z"}

Upper == {"A", "B", "C", "D", "E", "F", "G", "H", "I", "J", "K", "L", "M",
          "N", "O", "P", "Q", "R", "S", "T", "U", "V", "W", "X", "Y", "Z"}

\* \w of a JavaScript regular expression without the u/i flags
WordChar == Lower \cup Upper \cup Digit \cup {"_"}

LitTwitchTv == <<"t", "w", "i", "t", "c", "h", ".", "t", "v", "/">>
LitPlayerChannel == <<"p", "l", "a", "y", "e", "r", ".", "t", "w", "i", "t", "c", "h", ".", "t", "v", "/", "?", "c", "h", "a", "n", "n", "e", "l", "=">>
LitTwitch == <<"t", "w", "i", "t", "c", "h", "/">>
LitTwitchTvVideos == <<"t", "w", "i", "t", "c", "h", ".", "t", "v", "/", "v", "i", "d", "e", "o", "s", "/">>
LitPlayerVideo == <<"p", "l", "a", "y", "e", "r", ".", "t", "w", "i", "t", "c", "h", ".", "t", "v", "/", "?", "v", "i", "d", "e", "o", "=">>
LitTwitchVideo == <<"t", "w", "i", "t", "c", "h", "/", "v", "i", "d", "e", "o", "/">>
LitVideo == <<"v", "i", "d", "e", "o">>

\* the alternatives of each pattern's non-capturing group, in source order
channelAlternatives == <<LitTwitchTv, LitPlayerChannel, LitTwitch>>

videoAlternatives == <<LitTwitchTvVideos, LitPlayerVideo, LitTwitchVideo>>

(***************************************************************************)
(* Regular-expression matching                                             *)
(***************************************************************************)
\* the literal lit occurs in s starting at position i
MatchAt(s, i, lit) ==
    /\ i >= 1
    /\ i + Len(lit) - 1 <= Len(s)
    /\ \A k \in 1..Len(lit) : s[i + k - 1] = lit[k]

Min(S) == CHOOSE x \in S : \A y \in S : x <= y

Max(S) == CHOOSE x \in S : \A y \in S : x >= y

\* (?!videos?) at position j: fails exactly when "video" follows ("s" is optional)
ChannelLookaheadNone(s, j) == TRUE

ChannelLookahead(s, j) == ~MatchAt(s, j, LitVideo)

\* (\w+)$ at position j: one or more word characters up to the end of the input
WordToEnd(s, j) ==
    /\ j <= Len(s)
    /\ \A k \in j..Len(s) : s[k] \in WordChar

\* <<i, a>>: channelNameRE matches starting at i through alternative a
channelMatches(s) ==
    { m \in (1..Len(s)) \X (1..Len(channelAlternatives)) :
        /\ MatchAt(s, m[1], channelAlternatives[m[2]])
        /\ ChannelLookahead(s, m[1] + Len(channelAlternatives[m[2]]))
        /\ WordToEnd(s, m[1] + Len(channelAlternatives[m[2]])) }

\* <<i, a>>: videoIdRE matches starting at i through alternative a ((\d+) needs a digit)
videoMatches(s) ==
    { m \in (1..Len(s)) \X (1..Len(videoAlternatives)) :
        /\ MatchAt(s, m[1], videoAlternatives[m[2]])
        /\ m[1] + Len(videoAlternatives[m[2]]) <= Len(s)
        /\ s[m[1] + Len(videoAlternatives[m[2]])] \in Digit }

\* the match the engine reports: leftmost start, then the first alternative
FirstMatch(M) ==
    LET i == Min({ m[1] : m \in M })
    IN <<i, Min({ m[2] : m \in { x \in M : x[1] = i } })>>

\* end of the greedy digit run that starts at j
DigitRunEnd(s, j) ==
    Max({ e \in j..Len(s) : \A k \in j..e : s[k] \in Digit })

\* src.match(channelNameRE): <<>> for null, else <<group 1>>
channelNameRE(s) ==
    IF channelMatches(s) = {} THEN <<>>
    ELSE LET m == FirstMatch(channelMatches(s))
             j == m[1] + Len(channelAlternatives[m[2]])
         IN <<SubSeq(s, j, Len(s))>>

\* src.match(videoIdRE): <<>> for null, else <<group 1>>
videoIdRE(s) ==
    IF videoMatches(s) = {} THEN <<>>
    ELSE LET m == FirstMatch(videoMatches(s))
             j == m[1] + Len(videoAlternatives[m[2]])
         IN <<SubSeq(s, j, DigitRunEnd(s, j))>>

\* a property the returned object does not have
Undefined == <<"undefined">>

resolveTwitchSource(src) ==
    IF videoIdRE(src) # <<>>
    THEN [channel |-> Undefined, videoId |-> videoIdRE(src)[1]]
    ELSE IF channelNameRE(src) # <<>>
    THEN [channel |-> channelNameRE(src)[1], videoId |-> Undefined]
    ELSE [channel |-> Undefined, videoId |-> Undefined]

(***************************************************************************)
(* Inputs of resolveTwitchSource: a URL shape followed by up to MaxParts   *)
(* chunks                                                                  *)
(***************************************************************************)
ShapeWww == <<"h", "t", "t", "p", "s", ":", "/", "/", "w", "w", "w", ".", "t", "w", "i", "t", "c", "h", ".", "t", "v", "/">>
ShapePlayerChannel == <<"h", "t", "t", "p", "s", ":", "/", "/", "p", "l", "a", "y", "e", "r", ".", "t", "w", "i", "t", "c", "h", ".", "t", "v", "/", "?", "c", "h", "a", "n", "n", "e", "l", "=">>
ShapeTwitch == <<"t", "w", "i", "t", "c", "h", "/">>
ShapeWwwVideos == <<"h", "t", "t", "p", "s", ":", "/", "/", "w", "w", "w", ".", "t", "w", "i", "t", "c", "h", ".", "t", "v", "/", "v", "i", "d", "e", "o", "s", "/">>
ShapePlayerVideo == <<"h", "t", "t", "p", "s", ":", "/", "/", "p", "l", "a", "y", "e", "r", ".", "t", "w", "i", "t", "c", "h", ".", "t", "v", "/", "?", "v", "i", "d", "e", "o", "=">>
ShapeTwitchVideo == <<"t", "w", "i", "t", "c", "h", "/", "v", "i", "d", "e", "o", "/">>
ShapeOther == <<"h", "t", "t", "p", "s", ":", "/", "/", "e", "x", "a", "m", "p", "l", "e", ".", "c", "o", "m", "/">>

ChannelShapes == {ShapeWww, ShapePlayerChannel, ShapeTwitch}

VideoShapes == {ShapeWwwVideos, ShapePlayerVideo, ShapeTwitchVideo}

Shapes == ChannelShapes \cup VideoShapes \cup {ShapeOther, <<>>}

Chunks == {LitVideo, <<"s">>, <<"a">>, <<"_">>, <<"7">>, <<"/">>, LitTwitch}

RECURSIVE Bodies(_)
Bodies(n) ==
    IF n = 0 THEN {<<>>}
    ELSE Bodies(n - 1) \cup { b \o c : b \in Bodies(n - 1), c \in Chunks }

ResolveInputs == { sh \o b : sh \in Shapes, b \in Bodies(MaxParts) }

NotYet == [channel |-> <<"not called">>, videoId |-> <<"not called">>]

(***************************************************************************)
(* findTwitchPoster                                                        *)
(***************************************************************************)
\* the empty string
Empty == <<>>

\* what loadPoster returns when it calls nothing
Null == <<"null">>

\* a promise that has not been resolved yet
Pending == <<"pending">>

SizesAscending ==
    << [width |-> 640, height |-> 360],
       [width |-> 1280, height |-> 720],
       [width |-> 1920, height |-> 1080] >>

\* const sizes = [...], the same list in both branches
Sizes ==
    << [width |-> 1920, height |-> 1080],
       [width |-> 1280, height |-> 720],
       [width |-> 640, height |-> 360] >>

\* the template literals of the two branches, for the i-th size
PosterUrl(src, isChannel, i) ==
    IF isChannel
    THEN <<"https://static-cdn.jtvnw.net/previews-ttv/live_user_">> \o src
         \o <<"-", ToString(Sizes[i].width), "x", ToString(Sizes[i].height), ".jpg">>
    ELSE <<"https://static-cdn.jtvnw.net/cf_vods/">> \o src
         \o <<"/thumb/thumb0-", ToString(Sizes[i].width), "x", ToString(Sizes[i].height), ".jpg">>

CacheKeyNoKind(src, isChannel) == <<"-">> \o src

\* `${isChannel ? 'channel' : 'video'}-${src}`
CacheKey(src, isChannel) ==
    <<IF isChannel THEN "channel" ELSE "video", "-">> \o src

\* Map.prototype.set / delete
MapSet(m, k, v) == [x \in DOMAIN m \cup {k} |-> IF x = k THEN v ELSE m[x]]

MapDelete(m, k) == [x \in DOMAIN m \ {k} |-> m[x]]

HasCachedNever(key) == FALSE

\* posterCache.has(cacheKey)
HasCached(key) == key \in DOMAIN posterCache

HasPendingNever(key) == FALSE

\* pendingFetch.has(cacheKey)
HasPending(key) == key \in DOMAIN pendingFetch

IsSuccessUpTo400(status) == status <= 400

\* response.status < 400
IsSuccess(status) == status < 400

\* the status codes a response carries here: the two sides of the test
Statuses == {399, 400}

\* the promise executor up to its first await: the first fetch is issued
NewProbe(src, isChannel, c) ==
    [ cacheKey  |-> CacheKey(src, isChannel),
      src       |-> src,
      isChannel |-> isChannel,
      signal    |-> c,
      idx       |-> 1,
      fetched   |-> <<PosterUrl(src, isChannel, 1)>>,
      outcomes  |-> <<>>,
      state     |-> "fetching",
      value     |-> Pending ]

\* the loop body after `await fetch` returned a response with this status
OnResponse(pr, status) ==
    LET out == Append(pr.outcomes, [ok |-> TRUE, status |-> status])
    IN IF IsSuccess(status)
       THEN [pr EXCEPT !.outcomes = out, !.state = "resolved",
                       !.value = pr.fetched[pr.idx]]
       ELSE IF pr.idx < Len(Sizes)
       THEN [pr EXCEPT !.outcomes = out, !.idx = pr.idx + 1,
                       !.fetched = Append(pr.fetched,
                                          PosterUrl(pr.src, pr.isChannel, pr.idx + 1))]
       ELSE [pr EXCEPT !.outcomes = out, !.state = "resolved", !.value = Empty]

OnThrowNextSize(pr) ==
    LET out == Append(pr.outcomes, [ok |-> FALSE, status |-> 0])
    IN IF pr.idx < Len(Sizes)
       THEN [pr EXCEPT !.outcomes = out, !.idx = pr.idx + 1,
                       !.fetched = Append(pr.fetched,
                                          PosterUrl(pr.src, pr.isChannel, pr.idx + 1))]
       ELSE [pr EXCEPT !.outcomes = out, !.state = "resolved", !.value = Empty]

\* `await fetch` threw: catch (e) { resolve('') }
OnThrow(pr) ==
    [pr EXCEPT !.outcomes = Append(pr.outcomes, [ok |-> FALSE, status |-> 0]),
               !.state = "resolved", !.value = Empty]

FinallyKeep(key) == pendingFetch

\* .finally(() => pendingFetch.delete(cacheKey))
FinallyDelete(key) == MapDelete(pendingFetch, key)

NewCall(input, src, isChannel, c, how, p, result) ==
    [ input      |-> input,
      src        |-> src,
      isChannel  |-> isChannel,
      abort      |-> c,
      preAborted |-> c \in aborted,
      how        |-> how,
      probe      |-> p,
      result     |-> result ]

\* the body of findTwitchPoster, up to its return
findTwitchPoster(input, src, isChannel, c) ==
    LET key == CacheKey(src, isChannel)
    IN IF HasCached(key)
       THEN /\ calls' = Append(calls, NewCall(input, src, isChannel, c,
                                              "cached", 0, posterCache[key]))
            /\ UNCHANGED <<probes, pendingFetch>>
       ELSE IF HasPending(key)
       THEN /\ calls' = Append(calls, NewCall(input, src, isChannel, c,
                                              "joined", pendingFetch[key], Pending))
            /\ UNCHANGED <<probes, pendingFetch>>
       ELSE /\ probes' = Append(probes, NewProbe(src, isChannel, c))
            /\ pendingFetch' = MapSet(pendingFetch, key, Len(probes) + 1)
            /\ calls' = Append(calls, NewCall(input, src, isChannel, c,
                                              "started", Len(probes) + 1, Pending))

(***************************************************************************)
(* Inputs of the calls                                                     *)
(***************************************************************************)
\* src.src of loadPoster: strings of the documented shapes, a string that is
\* no Twitch source, and a value that is no string
LoadInputs ==
    { [isString |-> TRUE, src |-> ShapeTwitch \o <<"7">>],
      [isString |-> TRUE, src |-> ShapeTwitchVideo \o <<"7">>],
      [isString |-> TRUE, src |-> ShapeOther],
      [isString |-> FALSE, src |-> <<>>] }

(***************************************************************************)
(* Actions                                                                 *)
(***************************************************************************)
\* TwitchProviderLoader.loadPoster(src, ctx, abort); the caller passes its own controller
LoadPoster(input) ==
    /\ Len(calls) < MaxCalls
    /\ LET c == Len(calls) + 1
           r == IF input.isString THEN resolveTwitchSource(input.src)
                ELSE [channel |-> Undefined, videoId |-> Undefined]
       IN IF input.isString /\ r.channel # Undefined /\ r.channel # Empty
          THEN findTwitchPoster(input, r.channel, TRUE, c)
          ELSE IF input.isString /\ r.videoId # Undefined /\ r.videoId # Empty
          THEN findTwitchPoster(input, r.videoId, FALSE, c)
          ELSE /\ calls' = Append(calls, NewCall(input, Empty, FALSE, c,
                                                 "null", 0, Null))
               /\ UNCHANGED <<probes, pendingFetch>>
    /\ UNCHANGED <<rsrc, resolved, posterCache, aborted>>

\* the outstanding fetch of probe p returns a response; the loop continues
FetchResponse(p, status) ==
    /\ p \in 1..Len(probes)
    /\ probes[p].state = "fetching"
    /\ probes[p].signal \notin aborted
    /\ probes' = [probes EXCEPT ![p] = OnResponse(probes[p], status)]
    /\ posterCache' = IF probes'[p].value \notin {Pending, Empty}
                      THEN MapSet(posterCache, probes[p].cacheKey, probes'[p].value)
                      ELSE posterCache
    /\ UNCHANGED <<rsrc, resolved, pendingFetch, calls, aborted>>

\* the outstanding fetch of probe p rejects: a network error, or its signal aborted
FetchThrow(p) ==
    /\ p \in 1..Len(probes)
    /\ probes[p].state = "fetching"
    /\ probes' = [probes EXCEPT ![p] = OnThrow(probes[p])]
    /\ UNCHANGED <<rsrc, resolved, posterCache, pendingFetch, calls, aborted>>

\* abort.abort() on controller c, before its call is made or while the call waits
\* (no signal is read once its call has resolved)
Abort(c) ==
    /\ c \notin aborted
    /\ \/ c = Len(calls) + 1 /\ c <= MaxCalls
       \/ c <= Len(calls) /\ calls[c].result = Pending
    /\ aborted' = aborted \cup {c}
    /\ UNCHANGED <<rsrc, resolved, posterCache, pendingFetch, probes, calls>>

\* the .catch/.finally chain of probe p runs: the pending entry is deleted and
\* the promise every waiting call returned is fulfilled with the probe's value
Finally(p) ==
    /\ p \in 1..Len(probes)
    /\ probes[p].state = "resolved"
    /\ pendingFetch' = FinallyDelete(probes[p].cacheKey)
    /\ probes' = [probes EXCEPT ![p].state = "settled"]
    /\ calls' = [i \in 1..Len(calls) |->
                   IF calls[i].result = Pending /\ calls[i].probe = p
                   THEN [calls[i] EXCEPT !.result = probes[p].value]
                   ELSE calls[i]]
    /\ UNCHANGED <<rsrc, resolved, posterCache, aborted>>

EmptyMap == [x \in {} |-> Empty]

Init ==
    /\ rsrc = Empty
    /\ resolved = NotYet
    /\ posterCache = EmptyMap
    /\ pendingFetch = EmptyMap
    /\ probes = <<>>
    /\ calls = <<>>
    /\ aborted = {}

Next ==
    \/ \E input \in LoadInputs : LoadPoster(input)
    \/ \E p \in 1..MaxCalls, status \in Statuses : FetchResponse(p, status)
    \/ \E p \in 1..MaxCalls : FetchThrow(p)
    \/ \E c \in 1..MaxCalls : Abort(c)
    \/ \E p \in 1..MaxCalls : Finally(p)

Spec == Init /\ [][Next]_vars

\* every fetch settles, and queued promise callbacks run
FairSpec ==
    /\ Spec
    /\ WF_vars(\E p \in 1..MaxCalls : FetchThrow(p) \/ \E s \in Statuses : FetchResponse(p, s))
    /\ WF_vars(\E p \in 1..MaxCalls : Finally(p))

(***************************************************************************)
(* resolveTwitchSource applied to one input                                *)
(***************************************************************************)
InitResolve ==
    /\ rsrc \in ResolveInputs
    /\ resolved = NotYet
    /\ posterCache = EmptyMap
    /\ pendingFetch = EmptyMap
    /\ probes = <<>>
    /\ calls = <<>>
    /\ aborted = {}

Resolve ==
    /\ resolved = NotYet
    /\ resolved' = resolveTwitchSource(rsrc)
    /\ UNCHANGED <<rsrc, posterCache, pendingFetch, probes, calls, aborted>>

NextResolve == Resolve

SpecResolve == InitResolve /\ [][NextResolve]_vars

(***************************************************************************)
(* Vocabulary of the properties                                            *)
(***************************************************************************)
IsPrefix(p, s) == Len(p) <= Len(s) /\ SubSeq(s, 1, Len(p)) = p

IsSuffix(p, s) == Len(p) <= Len(s) /\ SubSeq(s, Len(s) - Len(p) + 1, Len(s)) = p

AllWord(s) == s # <<>> /\ \A k \in 1..Len(s) : s[k] \in WordChar

AllDigits(s) == s # <<>> /\ \A k \in 1..Len(s) : s[k] \in Digit

\* the three candidate sizes, largest first
ExpectedDims == << <<"1920", "x", "1080">>, <<"1280", "x", "720">>, <<"640", "x", "360">> >>

\* the n-th candidate URL of an identifier
ExpectedUrl(src, isChannel, n) ==
    IF isChannel
    THEN <<"https://static-cdn.jtvnw.net/previews-ttv/live_user_">> \o src
         \o <<"-">> \o ExpectedDims[n] \o <<".jpg">>
    ELSE <<"https://static-cdn.jtvnw.net/cf_vods/">> \o src
         \o <<"/thumb/thumb0-">> \o ExpectedDims[n] \o <<".jpg">>

ExpectedUrls(src, isChannel) == { ExpectedUrl(src, isChannel, n) : n \in 1..3 }

Success(o) == o.ok /\ o.status < 400

NonSuccess(o) == o.ok /\ o.status >= 400

Threw(o) == ~o.ok

SameKey(a, b) == a.src = b.src /\ a.isChannel = b.isChannel

ProbeIds == 1..Len(probes)

CallIds == 1..Len(calls)

\* this step is a call, and nc is the call it made
CallMade == Len(calls') = Len(calls) + 1

NewestCall == calls'[Len(calls')]

\* the calls that wait on, or were answered by, probe p
CallsOf(p) == { i \in CallIds : calls[i].probe = p }

(***************************************************************************)
(* C1: probes are fetched in descending size order, one at a time, and the *)
(* sequence stops at the first successful response                         *)
(***************************************************************************)
\* C1: every probe sequence fetches 1920x1080, 1280x720, 640x360 in that order,
\* one fetch outstanding at a time; a size is fetched only after every larger
\* size got a non-success response; the first success ends the sequence, and
\* every call of the sequence resolves to exactly that URL.
C1_DescendingUntilSuccess ==
    \A p \in ProbeIds :
        LET pr == probes[p]
            n == Len(pr.fetched)
        IN /\ n \in 1..3
           /\ \A k \in 1..n : pr.fetched[k] = ExpectedUrl(pr.src, pr.isChannel, k)
           /\ Len(pr.outcomes) = IF pr.state = "fetching" THEN n - 1 ELSE n
           /\ \A k \in 1..(n - 1) : NonSuccess(pr.outcomes[k])
           /\ \A k \in 1..Len(pr.outcomes) :
                 Success(pr.outcomes[k]) =>
                    /\ k = n
                    /\ pr.value = ExpectedUrl(pr.src, pr.isChannel, k)
                    /\ \A i \in CallsOf(p) :
                          calls[i].result \in {Pending, ExpectedUrl(pr.src, pr.isChannel, k)}

\* a sequence that failed on the largest size and succeeded on the second, whose
\* caller got the 1280x720 URL
C1_Witness ==
    \E p \in ProbeIds : \E i \in CallIds :
        /\ Len(probes[p].outcomes) = 2
        /\ NonSuccess(probes[p].outcomes[1])
        /\ Success(probes[p].outcomes[2])
        /\ calls[i].probe = p
        /\ calls[i].result = ExpectedUrl(probes[p].src, probes[p].isChannel, 2)

(***************************************************************************)
(* C2: in-flight de-duplication                                            *)
(***************************************************************************)
C2_OnePerKey ==
    \A p \in ProbeIds : \A q \in ProbeIds :
        (p # q /\ SameKey(probes[p], probes[q])) =>
            (probes[p].state = "settled" \/ probes[q].state = "settled")

C2_SameValue ==
    \A i \in CallIds : \A j \in CallIds :
        (calls[i].probe # 0 /\ calls[i].probe = calls[j].probe) =>
            /\ calls[i].result = calls[j].result
            /\ calls[i].result \in {Pending, probes[calls[i].probe].value}

C2_JoinerFetchesNothing ==
    (CallMade /\ NewestCall.how # "null") =>
        \A p \in ProbeIds :
            (SameKey(probes[p], NewestCall) /\ probes[p].state # "settled") =>
                /\ probes' = probes
                /\ \/ NewestCall.probe = p /\ NewestCall.result = Pending
                   \/ NewestCall.result = probes[p].value

\* C2: at most one probe sequence, hence one outstanding fetch, exists per key at
\* any time; a call that arrives while a sequence for its key is pending issues no
\* fetch and resolves to the value the starting call resolves to.
C2_InFlightDedup ==
    /\ [](C2_OnePerKey /\ C2_SameValue)
    /\ [][C2_JoinerFetchesNothing]_vars

\* a second call joined the first call's pending sequence and both got its URL
C2_Witness ==
    \E i \in CallIds : \E j \in CallIds :
        /\ calls[i].how = "started"
        /\ calls[j].how = "joined"
        /\ calls[i].probe = calls[j].probe
        /\ calls[i].result \in ExpectedUrls(calls[i].src, calls[i].isChannel)
        /\ calls[j].result = calls[i].result
        /\ Len(probes) = 1

(***************************************************************************)
(* C3: result cache                                                        *)
(***************************************************************************)
C3_CacheOnlyGrows ==
    \A k \in DOMAIN posterCache :
        k \in DOMAIN posterCache' /\ posterCache'[k] = posterCache[k]

C3_LaterCallsAnswered ==
    (CallMade /\ NewestCall.how # "null") =>
        \A p \in ProbeIds :
            (SameKey(probes[p], NewestCall) /\ probes[p].value \notin {Pending, Empty}) =>
                /\ NewestCall.result = probes[p].value
                /\ probes' = probes

\* C3: once a probe sequence of a key succeeded with URL u, every later call for
\* the key resolves to u and issues no fetch, and a posterCache entry is never
\* removed or overwritten with another value.
C3_ResultCache == [][C3_CacheOnlyGrows /\ C3_LaterCallsAnswered]_vars

\* a call made after its key's sequence succeeded and settled, answered from the cache
C3_Witness ==
    \E i \in CallIds : \E p \in ProbeIds :
        /\ calls[i].probe = 0
        /\ calls[i].result # Null
        /\ SameKey(probes[p], calls[i])
        /\ probes[p].state = "settled"
        /\ calls[i].result = probes[p].value
        /\ calls[i].result \in ExpectedUrls(calls[i].src, calls[i].isChannel)
        /\ Len(probes) = 1

(***************************************************************************)
(* C4: non-success responses                                               *)
(***************************************************************************)
C4_NextSizeOnNonSuccess ==
    \A p \in ProbeIds :
        (/\ probes[p].state = "fetching"
         /\ Len(probes'[p].outcomes) = Len(probes[p].outcomes) + 1
         /\ NonSuccess(probes'[p].outcomes[Len(probes'[p].outcomes)])) =>
            /\ posterCache' = posterCache
            /\ IF Len(probes[p].fetched) < 3
               THEN /\ probes'[p].state = "fetching"
                    /\ probes'[p].fetched =
                          Append(probes[p].fetched,
                                 ExpectedUrl(probes[p].src, probes[p].isChannel,
                                             Len(probes[p].fetched) + 1))
               ELSE /\ probes'[p].state = "resolved"
                    /\ probes'[p].value = Empty
                    /\ probes'[p].fetched = probes[p].fetched

C4_AllFailedIsEmpty ==
    \A p \in ProbeIds :
        /\ \A k \in 1..Len(probes[p].fetched) : \A l \in 1..Len(probes[p].fetched) :
              probes[p].fetched[k] = probes[p].fetched[l] => k = l
        /\ (Len(probes[p].outcomes) = 3 /\ \A k \in 1..3 : NonSuccess(probes[p].outcomes[k])) =>
              /\ Len(probes[p].fetched) = 3
              /\ probes[p].value = Empty
              /\ \A i \in CallsOf(p) : calls[i].result \in {Pending, Empty}

\* C4: a non-success response (status >= 400) only makes the sequence fetch the
\* next smaller size; after three of them the call resolves to the empty string,
\* with exactly three fetches, no size fetched twice, and posterCache untouched.
C4_NonSuccessTriesNext ==
    /\ []C4_AllFailedIsEmpty
    /\ [][C4_NextSizeOnNonSuccess]_vars

\* all three sizes answered 400 and the caller got the empty string; nothing cached
C4_Witness ==
    \E p \in ProbeIds : \E i \in CallIds :
        /\ Len(probes[p].outcomes) = 3
        /\ \A k \in 1..3 : NonSuccess(probes[p].outcomes[k])
        /\ calls[i].probe = p
        /\ calls[i].result = Empty
        /\ posterCache = EmptyMap

(***************************************************************************)
(* C5: the AbortController of a call                                       *)
(***************************************************************************)
\* C5: aborting the controller passed to a call that waits on a probe sequence
\* with an outstanding fetch (started or joined) makes that fetch fail: no further
\* size is fetched and the sequence ends with the empty string.
C5_AbortCancelsFetch ==
    [][\A i \in CallIds :
          (/\ calls[i].result = Pending
           /\ ~calls[i].preAborted
           /\ i \in aborted
           /\ probes[calls[i].probe].state = "fetching") =>
              /\ probes'[calls[i].probe].fetched = probes[calls[i].probe].fetched
              /\ probes'[calls[i].probe].state # "fetching" =>
                    probes'[calls[i].probe].value = Empty]_vars

\* the same for the calls that started their sequence
C5_AbortCancelsOwnFetch ==
    [][\A i \in CallIds :
          (/\ calls[i].result = Pending
           /\ calls[i].how = "started"
           /\ ~calls[i].preAborted
           /\ i \in aborted
           /\ probes[calls[i].probe].state = "fetching") =>
              /\ probes'[calls[i].probe].fetched = probes[calls[i].probe].fetched
              /\ probes'[calls[i].probe].state # "fetching" =>
                    probes'[calls[i].probe].value = Empty]_vars

(***************************************************************************)
(* C6: findTwitchPoster never rejects; a throwing fetch ends the sequence   *)
(***************************************************************************)
C6_ResultsAreOwnUrlOrEmpty ==
    \A i \in CallIds :
        /\ calls[i].how # "null" =>
              calls[i].result \in
                 {Pending, Empty} \cup ExpectedUrls(calls[i].src, calls[i].isChannel)
        /\ (calls[i].how = "started" /\ calls[i].preAborted) =>
              /\ Len(probes[calls[i].probe].fetched) = 1
              /\ calls[i].result \in {Pending, Empty}

C6_ThrowEndsSequence ==
    \A p \in ProbeIds :
        (/\ probes[p].state = "fetching"
         /\ Len(probes'[p].outcomes) = Len(probes[p].outcomes) + 1
         /\ Threw(probes'[p].outcomes[Len(probes'[p].outcomes)])) =>
            /\ probes'[p].fetched = probes[p].fetched
            /\ probes'[p].state = "resolved"
            /\ probes'[p].value = Empty
            /\ posterCache' = posterCache

\* C6: every call resolves to one of the three candidate URLs of its own
\* identifier and kind or to the empty string; a fetch that throws (network error,
\* abort, a signal aborted before the call) ends the sequence at once with the
\* empty string, fetching no further size and leaving posterCache unchanged.
C6_NeverRejects ==
    /\ []C6_ResultsAreOwnUrlOrEmpty
    /\ [][C6_ThrowEndsSequence]_vars

\* a call made with an aborted signal: its first fetch threw, no second size was
\* tried, and it resolved to the empty string
C6_Witness ==
    \E i \in CallIds :
        /\ calls[i].how = "started"
        /\ calls[i].preAborted
        /\ calls[i].result = Empty
        /\ Len(probes[calls[i].probe].fetched) = 1
        /\ Threw(probes[calls[i].probe].outcomes[1])

(***************************************************************************)
(* C7, C8: resolveTwitchSource                                             *)
(***************************************************************************)
Rest(sh, s) == SubSeq(s, Len(sh) + 1, Len(s))

\* the two channel names the comment on channelNameRE documents as excluded
DocumentedExclusions == {LitVideo, LitVideo \o <<"s">>}

C7_ChannelShapes ==
    \A sh \in ChannelShapes :
        (/\ IsPrefix(sh, rsrc)
         /\ AllWord(Rest(sh, rsrc))
         /\ Rest(sh, rsrc) \notin DocumentedExclusions) =>
            resolved = [channel |-> Rest(sh, rsrc), videoId |-> Undefined]

C7_VideoShapes ==
    \A sh \in VideoShapes :
        (IsPrefix(sh, rsrc) /\ AllDigits(Rest(sh, rsrc))) =>
            resolved = [channel |-> Undefined, videoId |-> Rest(sh, rsrc)]

\* C7: each documented channel shape followed by a word-character name (other
\* than the two names the source documents as excluded) yields {channel: name},
\* and each documented video shape followed by digits yields {videoId: digits}.
C7_DocumentedShapes ==
    resolved # NotYet => (C7_ChannelShapes /\ C7_VideoShapes)

\* the video half of C7, and the channel half for names that do not begin with "video"
C7_ShapesExceptVideoPrefix ==
    resolved # NotYet =>
        /\ C7_VideoShapes
        /\ \A sh \in ChannelShapes :
              (/\ IsPrefix(sh, rsrc)
               /\ AllWord(Rest(sh, rsrc))
               /\ ~IsPrefix(LitVideo, Rest(sh, rsrc))) =>
                  resolved = [channel |-> Rest(sh, rsrc), videoId |-> Undefined]

\* C8: the result never holds both a channel and a video ID; the video pattern
\* wins whenever it matches, the channel pattern is consulted only otherwise, an
\* input matching neither yields the empty object, and an input ending in
\* twitch.tv/video or twitch.tv/videos yields no channel.
C8_AtMostOneVideoFirst ==
    resolved # NotYet =>
        /\ ~(resolved.channel # Undefined /\ resolved.videoId # Undefined)
        /\ videoIdRE(rsrc) # <<>> =>
              resolved = [channel |-> Undefined, videoId |-> videoIdRE(rsrc)[1]]
        /\ (videoIdRE(rsrc) = <<>> /\ channelNameRE(rsrc) # <<>>) =>
              resolved = [channel |-> channelNameRE(rsrc)[1], videoId |-> Undefined]
        /\ (videoIdRE(rsrc) = <<>> /\ channelNameRE(rsrc) = <<>>) =>
              resolved = [channel |-> Undefined, videoId |-> Undefined]
        /\ (\/ IsSuffix(LitTwitchTv \o LitVideo, rsrc)
            \/ IsSuffix(LitTwitchTv \o LitVideo \o <<"s">>, rsrc)) =>
              resolved.channel = Undefined

\* an input both patterns match, resolved to the video ID alone
C8_Witness ==
    /\ resolved # NotYet
    /\ videoIdRE(rsrc) # <<>>
    /\ channelNameRE(rsrc) # <<>>
    /\ resolved.videoId # Undefined
    /\ resolved.channel = Undefined

\* https://www.twitch.tv/videos resolved to the empty object
C8_WitnessExcluded ==
    /\ resolved = [channel |-> Undefined, videoId |-> Undefined]
    /\ rsrc = ShapeWww \o LitVideo \o <<"s">>

(***************************************************************************)
(* C9: loadPoster                                                          *)
(***************************************************************************)
\* what each loadPoster input resolves to
ResolvedInput == [input \in LoadInputs |-> resolveTwitchSource(input.src)]

IsChannelInput(input) ==
    input.isString /\ ResolvedInput[input].channel # Undefined

IsVideoInput(input) ==
    input.isString /\ ResolvedInput[input].videoId # Undefined

IdentifierOf(input) ==
    IF IsVideoInput(input) THEN ResolvedInput[input].videoId
    ELSE ResolvedInput[input].channel

C9_CallsByKind ==
    \A i \in CallIds :
        LET c == calls[i]
        IN /\ (~IsChannelInput(c.input) /\ ~IsVideoInput(c.input)) =>
                 (c.result = Null /\ c.probe = 0)
           /\ (IsChannelInput(c.input) \/ IsVideoInput(c.input)) =>
                 /\ c.result \in
                       {Pending, Empty}
                       \cup ExpectedUrls(IdentifierOf(c.input), IsChannelInput(c.input))
                 /\ c.probe # 0 =>
                       /\ probes[c.probe].isChannel = IsChannelInput(c.input)
                       /\ probes[c.probe].src = IdentifierOf(c.input)
                       /\ \A k \in 1..Len(probes[c.probe].fetched) :
                             probes[c.probe].fetched[k] \in
                                ExpectedUrls(IdentifierOf(c.input), IsChannelInput(c.input))

C9_KeysByKind ==
    /\ \A p \in ProbeIds : \A q \in ProbeIds :
          (probes[p].isChannel # probes[q].isChannel) =>
              probes[p].cacheKey # probes[q].cacheKey
    /\ \A p \in ProbeIds :
          /\ probes[p].cacheKey \in DOMAIN pendingFetch =>
                SameKey(probes[pendingFetch[probes[p].cacheKey]], probes[p])
          /\ probes[p].cacheKey \in DOMAIN posterCache =>
                posterCache[probes[p].cacheKey]
                   \in ExpectedUrls(probes[p].src, probes[p].isChannel)
    /\ \A k \in DOMAIN posterCache \cup DOMAIN pendingFetch :
          \E p \in ProbeIds : probes[p].cacheKey = k

C9_NullCallsFetchNothing ==
    (CallMade /\ ~IsChannelInput(NewestCall.input) /\ ~IsVideoInput(NewestCall.input)) =>
        probes' = probes

\* C9: loadPoster returns null without a fetch for a non-string source or one that
\* is neither channel nor video; otherwise it probes the channel preview URLs for
\* a channel and the VOD thumbnail URLs for a video.  A channel and a video with
\* the same identifier never share a posterCache or pendingFetch entry, and the
\* value cached under a key is a URL of that key's kind and identifier.
C9_LoadPosterKinds ==
    /\ [](C9_CallsByKind /\ C9_KeysByKind)
    /\ [][C9_NullCallsFetchNothing]_vars

\* channel 7 and video 7 were both loaded and cached, each under its own key with
\* a URL of its own kind
C9_Witness ==
    \E i \in CallIds : \E j \in CallIds :
        /\ calls[i].input.src = ShapeTwitch \o <<"7">>
        /\ calls[j].input.src = ShapeTwitchVideo \o <<"7">>
        /\ calls[i].result \in ExpectedUrls(<<"7">>, TRUE)
        /\ calls[j].result \in ExpectedUrls(<<"7">>, FALSE)
        /\ Cardinality(DOMAIN posterCache) = 2

(***************************************************************************)
(* C10: every call resolves, no key stays pending, failures are not cached *)
(***************************************************************************)
\* no call waits and no key is pending
C10_Quiescent ==
    /\ \A i \in CallIds : calls[i].result # Pending
    /\ pendingFetch = EmptyMap

C10_FailureNotMemoized ==
    (/\ CallMade
     /\ NewestCall.how # "null"
     /\ \E p \in ProbeIds : SameKey(probes[p], NewestCall)
     /\ \A p \in ProbeIds :
           SameKey(probes[p], NewestCall) =>
               (probes[p].state = "settled" /\ probes[p].value = Empty)) =>
        /\ Len(probes') = Len(probes) + 1
        /\ SameKey(probes'[Len(probes')], NewestCall)
        /\ probes'[Len(probes')].state = "fetching"
        /\ probes'[Len(probes')].fetched =
              <<ExpectedUrl(NewestCall.src, NewestCall.isChannel, 1)>>
        /\ NewestCall.result = Pending

\* C10: when every fetch settles, every call resolves and every pendingFetch entry
\* is removed; after a sequence ended with the empty string and its entry was
\* removed, the next call for the key starts a new sequence at the largest size.
\* (A call or key that stayed pending forever would keep C10_Quiescent false from
\* some point on, so "always eventually quiescent" covers each of them.)
C10_EventuallySettles ==
    /\ []<>C10_Quiescent
    /\ [][C10_FailureNotMemoized]_vars

\* a key whose first sequence failed and settled, and whose next call started a
\* second sequence that has settled too, leaving nothing pending
C10_Witness ==
    \E p \in ProbeIds : \E q \in ProbeIds :
        /\ p < q
        /\ SameKey(probes[p], probes[q])
        /\ probes[p].value = Empty
        /\ probes[q].state = "settled"
        /\ pendingFetch = EmptyMap
        /\ \A i \in CallIds : calls[i].result # Pending

====
